---- MODULE Spec2Model ----
(***************************************************************************)
(* A model of src/bot.py: the /forecast handler, the 24h signal scorer     *)
(* (compute_metrics), the qualitative leveling (lvl3, words) and the       *)
(* narrative synthesizer (build_message).                                  *)
(*                                                                         *)
(* Strings.  A Python str is modelled as a sequence of symbols.  A symbol  *)
(* stands for one character: it is a whitespace character (" ", "<tab>",   *)
(* "<nl>") or a cluster that str.strip, str.split, re.sub(r"\s+") and      *)
(* str.replace treat as one unit.  The words the replace patterns of       *)
(* build_message are made of are kept as symbols of their own, in          *)
(* transliteration: "za" "24" "chasa" "sutki" "poslednie"                  *)
(* "obshchestvennoy" "publichnoy".  "w" is a run of template text in which *)
(* no replace pattern occurs and which cannot complete one with its        *)
(* neighbours; "c" is such a run in user supplied text.                    *)
(*                                                                         *)
(* Numbers.  A Python float in [0,1] is modelled in fixed point with unit  *)
(* Scale; math.exp is computed by its Taylor series in that fixed point.   *)
(***************************************************************************)
EXTENDS Integers, Sequences, FiniteSets, TLC

VARIABLES
    pc,            \* position of the handler / of the function under check
    msg,           \* message.text of the incoming update (None is "<None>")
    city,          \* cmd_forecast: city
    articles_24h,  \* cmd_forecast: articles_24h
    metrics,       \* cmd_forecast: metrics
    top_articles,  \* cmd_forecast: top_articles
    mode,          \* build_message: mode
    sections,      \* build_message: sections, as joined at line 475
    text,          \* build_message: the returned text
    replies,       \* what message.answer was awaited with, in order
    raised,        \* an exception left cmd_forecast
    calls,         \* how often the handler called each collaborator
    outcome,       \* how the news search request ended
    arg,           \* input of the function under check
    ret            \* its result

vars == <<pc, msg, city, articles_24h, metrics, top_articles, mode, sections,
          text, replies, raised, calls, outcome, arg, ret>>

-----------------------------------------------------------------------------
(* Bounds of the model *)

\* most items a search payload holds
MaxArticles == 7

\* longest article list whose source countries are drawn freely
MaxMixLen == 3

\* longest whitespace run put into a place string
MaxPad == 2

-----------------------------------------------------------------------------
(* Symbols and sequences *)

None == "<None>"
SP == " "
TAB == "<tab>"
NL == "<nl>"

\* what str.isspace() holds of
Whitespace == {SP, TAB, NL}

Min(a, b) == IF a < b THEN a ELSE b
Max(a, b) == IF a > b THEN a ELSE b

Range(s) == {s[i] : i \in DOMAIN s}

RECURSIVE Join(_, _)
\* sep.join(ss)
Join(sep, ss) ==
    IF ss = <<>> THEN <<>>
    ELSE IF Len(ss) = 1 THEN ss[1]
    ELSE ss[1] \o sep \o Join(sep, Tail(ss))

\* n copies of symbol x
Rep(x, n) == [i \in 1..n |-> x]

\* s[:n]
Take(s, n) == SubSeq(s, 1, Min(n, Len(s)))

\* s[n:]
Drop(s, n) == SubSeq(s, n + 1, Len(s))

\* str.lstrip()
LStrip(s) ==
    IF \A i \in DOMAIN s : s[i] \in Whitespace THEN <<>>
    ELSE Drop(s, (CHOOSE i \in DOMAIN s :
                    s[i] \notin Whitespace /\ \A j \in 1..(i - 1) : s[j] \in Whitespace) - 1)

\* str.rstrip()
RStrip(s) ==
    IF \A i \in DOMAIN s : s[i] \in Whitespace THEN <<>>
    ELSE Take(s, CHOOSE i \in DOMAIN s :
                    s[i] \notin Whitespace /\ \A j \in (i + 1)..Len(s) : s[j] \in Whitespace)

\* str.strip()
Strip(s) == RStrip(LStrip(s))

\* s holds pattern p at index i
MatchAt(s, p, i) == i + Len(p) - 1 <= Len(s) /\ SubSeq(s, i, i + Len(p) - 1) = p

RECURSIVE Replace(_, _, _)
\* str.replace(old, new): left to right, non-overlapping, old non-empty
Replace(s, old, new) ==
    IF \A i \in DOMAIN s : ~MatchAt(s, old, i) THEN s
    ELSE LET i == CHOOSE k \in DOMAIN s :
                     MatchAt(s, old, k) /\ \A j \in 1..(k - 1) : ~MatchAt(s, old, j)
         IN  Take(s, i - 1) \o new \o Replace(Drop(s, i + Len(old) - 1), old, new)

\* re.sub(r"\s+", " ", s): of every whitespace run its first symbol is
\* kept, as a space
CollapseWs(s) ==
    LET kept == SelectSeq([i \in DOMAIN s |-> i],
                          LAMBDA i : s[i] \notin Whitespace
                                       \/ i = 1 \/ s[i - 1] \notin Whitespace)
    IN  [j \in DOMAIN kept |-> IF s[kept[j]] \in Whitespace THEN SP ELSE s[kept[j]]]

MaxCityLen == 80

\* human_city
human_city(s) == Take(CollapseWs(Strip(s)), MaxCityLen)

\* str.split(maxsplit=1) with no separator
split1(s) ==
    LET a == LStrip(s)
        n == IF \E i \in DOMAIN a : a[i] \in Whitespace
             THEN (CHOOSE i \in DOMAIN a :
                      a[i] \in Whitespace /\ \A j \in 1..(i - 1) : a[j] \notin Whitespace) - 1
             ELSE Len(a)
        rest == LStrip(Drop(a, n))
    IN  IF a = <<>> THEN <<>>
        ELSE IF rest = <<>> THEN <<Take(a, n)>>
        ELSE <<Take(a, n), rest>>

-----------------------------------------------------------------------------
(* Fixed point numbers *)

\* 1.0
Scale == 10 ^ 6

\* the decimal num/den
Dec(num, den) == (num * Scale) \div den

\* (a / b) in fixed point, 0 <= a <= 2*Scale, 0 < b <= 2*Scale, without
\* leaving 32 bits
FDiv(a, b) ==
    LET q1 == (a * 1000) \div b
        r1 == (a * 1000) % b
    IN  q1 * 1000 + (r1 * 1000) \div b

RECURSIVE ExpNegSeries(_, _, _, _)
\* the terms of the series of exp(-p/q) from the k-th on, term being the
\* (k-1)-th in absolute value
ExpNegSeries(p, q, k, term) ==
    LET t == (term * p) \div (q * k)
    IN  IF t = 0 THEN 0
        ELSE (IF k % 2 = 1 THEN 0 - t ELSE t) + ExpNegSeries(p, q, k + 1, t)

\* math.exp(-p/q) for p >= 0, q > 0
ExpNeg(p, q) == Max(0, Scale + ExpNegSeries(p, q, 1, Scale))

\* clamp
clamp(x, lo, hi) == Max(lo, Min(hi, x))

\* sigmoid(p/q)
sigmoid(p, q) ==
    IF p >= 0 THEN FDiv(Scale, Scale + ExpNeg(p, q))
    ELSE FDiv(ExpNeg(0 - p, q), Scale + ExpNeg(0 - p, q))

-----------------------------------------------------------------------------
(* Articles and metrics *)

\* Article(title, url, seendate, source_country)
Article(t, u, d, c) == [title |-> t, url |-> u, seendate |-> d, source_country |-> c]

\* the truth value of a source_country: None and "" are false
Truthy(c) == c # None /\ c # ""

\* the wind centre of compute_metrics moved from 4 to 0
windCentred(n) == clamp(sigmoid((n - 0) * 7, 10), 0, Scale)

\* compute_metrics: wind
wind_of(n) == clamp(sigmoid((n - 4) * 7, 10), 0, Scale)

\* compute_metrics
compute_metrics(arts) ==
    LET n == Len(arts)
        precipitation == clamp(Scale - ExpNeg(n, 6), 0, Scale)
        wind == wind_of(n)
        countries == {arts[i].source_country : i \in {j \in DOMAIN arts : Truthy(arts[j].source_country)}}
        diversity == Cardinality(countries)
        pressure == clamp(Scale - ExpNeg(diversity, 4), 0, Scale)
        temperature == clamp((55 * precipitation + 30 * wind + 15 * pressure) \div 100, 0, Scale)
        confidence == clamp(Scale - ExpNeg(2 * n, 11), 0, Scale)
    IN  [n |-> n, precipitation |-> precipitation, wind |-> wind,
         pressure |-> pressure, temperature |-> temperature,
         confidence |-> confidence]

\* lvl3 with closed intervals on the left: x <= a, x <= b
lvl3Closed(x, a, b, low, mid, high) ==
    IF x <= a THEN low ELSE IF x <= b THEN mid ELSE high

\* lvl3
lvl3(x, a, b, low, mid, high) ==
    IF x < a THEN low ELSE IF x < b THEN mid ELSE high

\* words
words(m) ==
    LET precip == lvl3(m.precipitation, Dec(25, 100), Dec(65, 100), "nizkaya", "umerennaya", "vysokaya")
        wind == lvl3(m.wind, Dec(25, 100), Dec(65, 100), "slabyy", "zametnyy", "poryvistyy")
        press == lvl3(m.pressure, Dec(25, 100), Dec(65, 100), "spokoynoe", "peremennoe", "nestabilnoe")
        t == m.temperature
        temp == IF t > Dec(88, 100) THEN "peregretaya"
                ELSE lvl3(t, Dec(30, 100), Dec(75, 100), "prokhladnaya", "tyoplaya", "goryachaya")
        conf == lvl3(m.confidence, Dec(35, 100), Dec(75, 100), "nizkaya", "srednyaya", "vysokaya")
    IN  [precip |-> precip, wind |-> wind, press |-> press, temp |-> temp, conf |-> conf]

-----------------------------------------------------------------------------
(* The template corpus.  Each phrase is written symbol by symbol where a   *)
(* replace pattern of build_message occurs in it, and as "w" elsewhere.    *)

W == <<"w">>

\* ANCHORS: [0] holds "obshchestvennoy"
ANCHORS == << <<"w", SP, "obshchestvennoy", SP, "w">>, W, W, W, W, W, W >>

\* VOICE_TAGS
VOICE_TAGS == << W, W, W, W, W, W, W >>

\* OPENERS: "Za poslednie 24 chasa" and "Za sutki" start with a capital
OPENERS == << W, W, W, W, W >>

\* MORNING_TEMPLATES, filled from PHENOMENA and DESCS
MORNING_TEMPLATES == << W, W, W, W, W >>

\* DAY_TEMPLATES, filled from DAY_EVENTS and ADVICES
DAY_TEMPLATES == << W, W, W, W, W, W >>

\* EVENING_TEMPLATES, filled from EVENINGS and EVENING_DESCS
EVENING_TEMPLATES == << W, W, W, W, W >>

\* "**{x}**"
Bold(x) == <<"**", x, "**">>

\* one line of a metric template: its icon, its wording, its label
MetricLine(icon, label) == <<icon, "w">> \o Bold(label)

\* METRIC_TEMPLATES, formatted: three lines (or, in [1], three parts of one
\* line), the text between two labels being pattern free
METRIC_TEMPLATES(temp, wind, press) ==
    LET t == MetricLine("[thermometer]", temp) \o <<"w">>
               \o MetricLine("[wind]", wind) \o <<"w">>
               \o MetricLine("[globe]", press) \o <<"w">>
    IN  <<t, t, t, t>>

\* RADAR_HEADERS: [0] ends "za 24 chasa", [3] ends "za sutki", [4] "za 24ch"
RADAR_HEADERS ==
    << <<"w", SP, "za", SP, "24", SP, "chasa">>, W, W,
       <<"w", SP, "za", SP, "sutki">>, W >>

\* RADAR_LINES, formatted: [0] and [4] hold "za 24 chasa:"
RADAR_LINES(n) ==
    LET plain == <<"w", ":", SP>> \o Bold(n) \o <<".">>
        za24 == <<"w", SP, "za", SP, "24", SP, "chasa", ":", SP>> \o Bold(n) \o <<".">>
    IN  <<za24, plain, plain, plain, za24>>

\* CONF_TEMPLATES, formatted
CONF_TEMPLATES(conf) ==
    LET t == <<"[magnifier]", "w">> \o Bold(conf) \o <<"w">>
    IN  <<t, t, t, t>>

\* ASIDES
ASIDES == << W, W, W, W, W, W, W >>

\* FINALS
FINALS == << W, W, W, W, W, W, W >>

\* MICRO_SECTIONS
MICRO_SECTIONS == << W, W, W, W, W >>

\* MODELS
MODELS == <<"classic", "philosophical", "dry", "poetic", "radio", "minimal">>

\* the weights of random.choices at line 399, in percent
MODEL_WEIGHTS == <<35, 18, 12, 10, 15, 10>>

-----------------------------------------------------------------------------
(* Randomness: the set of results a draw can have *)

\* maybe(p), p in percent
maybe(p) == {b \in BOOLEAN : (b => p > 0) /\ (~b => p < 100)}

\* pick(items)
pick(items) == Range(items)

\* random.shuffle(s): every order
shuffle(s) == {[i \in DOMAIN s |-> s[p[i]]] : p \in Permutations(DOMAIN s)}

\* random.choices(MODELS, weights, k=1)[0]
choose_mode == {MODELS[i] : i \in {j \in DOMAIN MODELS : MODEL_WEIGHTS[j] > 0}}

-----------------------------------------------------------------------------
(* build_message *)

\* f"{pick(ANCHORS)}: {city}"
Titles(c) == {a \o <<":", SP>> \o c : a \in pick(ANCHORS)}

\* metrics_block, line 409
metrics_blocks(w) == pick(METRIC_TEMPLATES(w.temp, w.wind, w.press))

\* radar_block, line 410
radar_blocks(n) ==
    {h \o <<NL>> \o l : h \in pick(RADAR_HEADERS), l \in pick(RADAR_LINES(ToString(n)))}

\* conf_block formatted with the wind label
conf_blocksWind(w) == pick(CONF_TEMPLATES(w.wind))

\* conf_block, line 411
conf_blocks(w) == pick(CONF_TEMPLATES(w.conf))

\* "Svodka za sutki po publichnym signalam.", line 433
DrySummary == <<"w", SP, "za", SP, "sutki", SP, "w">>

\* the sections of mode "minimal", lines 417-423
MinimalSections(c, m, w) ==
    {<<title, radar>> \o mb \o <<final>> :
        title \in Titles(c), radar \in radar_blocks(m.n),
        mb \in {IF b THEN <<x>> ELSE <<>> : b \in maybe(70), x \in metrics_blocks(w)},
        final \in pick(FINALS)}

\* the top of the other modes, lines 426-441
HeadSections(md, c) ==
    LET withOpener(p) == {IF b THEN <<o>> ELSE <<>> : b \in maybe(p), o \in pick(OPENERS)}
    IN  UNION {
          CASE md = "radio" ->
                 {<<(<<"[radio]", SP>> \o title), voice>> \o op : op \in withOpener(75)}
            [] md = "dry" -> {<<title, DrySummary>>}
            [] md = "poetic" -> {<<title \o <<NL>> \o voice \o <<NL>> \o W>>}
            [] md = "philosophical" -> {<<title \o <<NL>> \o voice \o <<NL>> \o W>>}
            [] OTHER ->
                 {<<title \o <<NL>> \o voice>> \o op : op \in withOpener(60)}
          : title \in Titles(c), voice \in pick(VOICE_TAGS)}

\* the order of morning, day and evening, lines 444-449.  The three phrases
\* come from disjoint pools, so comparing them compares their slots.
TrioOrders ==
    LET base == <<"morning", "day", "evening">>
        last(t, b) == IF b THEN SelectSeq(t, LAMBDA x : x # "evening") \o <<"evening">> ELSE t
    IN  {last(IF sh THEN t ELSE base, b) :
            sh \in maybe(35), t \in shuffle(base), b \in maybe(75)}

\* trio, lines 405-407 and 444-450
Trios ==
    LET phrase(slot, mo, da, ev) ==
            CASE slot = "morning" -> mo [] slot = "day" -> da [] OTHER -> ev
    IN  {[i \in 1..3 |-> phrase(o[i], mo, da, ev)] :
            o \in TrioOrders, mo \in pick(MORNING_TEMPLATES),
            da \in pick(DAY_TEMPLATES), ev \in pick(EVENING_TEMPLATES)}

\* tail, lines 453-456
Tails(m, w) ==
    UNION {shuffle(<<mb, rb>> \o cb) :
             mb \in metrics_blocks(w), rb \in radar_blocks(m.n),
             cb \in {IF b THEN <<x>> ELSE <<>> : b \in maybe(85), x \in conf_blocks(w)}}

\* the asides, lines 460-463
Extras ==
    {a \o mi : a \in {IF b THEN <<x>> ELSE <<>> : b \in maybe(35), x \in pick(ASIDES)},
               mi \in {IF b THEN <<x>> ELSE <<>> : b \in maybe(25), x \in pick(MICRO_SECTIONS)}}

\* the sections before the evidence block, lines 415-466
BodySections(md, c, m) ==
    LET w == words(m)
    IN  IF md = "minimal" THEN MinimalSections(c, m, w)
        ELSE {h \o t \o tl \o e \o <<final>> :
                 h \in HeadSections(md, c), t \in Trios, tl \in Tails(m, w),
                 e \in Extras, final \in pick(FINALS)}

EvidenceCap == 6

\* top_articles[:6] without the cap
EvidenceSliceAll(arts) == arts

\* top_articles[:6], line 471
EvidenceSlice(arts) == Take(arts, EvidenceCap)

\* f"* {a.title}\n  {a.url}", line 472
EvidenceLine(a) == <<"[bullet]", SP>> \o a.title \o <<NL, SP, SP>> \o a.url

\* the evidence block, lines 470-473
EvidenceBlock(arts) ==
    <<"[newspaper]", SP, "w", ":", NL>>
      \o Join(<<NL>>, [i \in DOMAIN EvidenceSlice(arts) |-> EvidenceLine(EvidenceSlice(arts)[i])])

\* sections after lines 468-473
WithEvidence(secs, arts) ==
    IF arts = <<>> THEN {secs}
    ELSE {IF b THEN Append(secs, EvidenceBlock(arts)) ELSE secs : b \in maybe(70)}

Za24 == <<"za", SP, "24", SP, "chasa">>
ZaPoslednie == <<"za", SP, "poslednie", SP, "sutki">>
ZaSutki == <<"za", SP, "sutki">>

\* a mutation pass with one more synonym swap, of a label
MutationsSynonym(t) ==
    {LET t1 == IF m1 THEN Replace(Replace(t, Za24, ZaPoslednie), ZaSutki, Za24) ELSE t
     IN  IF m2 THEN Replace(Replace(t1, <<"obshchestvennoy">>, <<"publichnoy">>),
                            <<"nizkaya">>, <<"slabaya">>)
         ELSE t1
     : m1 \in maybe(25), m2 \in maybe(18)}

\* the mutations, lines 478-481
Mutations(t) ==
    {LET t1 == IF m1 THEN Replace(Replace(t, Za24, ZaPoslednie), ZaSutki, Za24) ELSE t
     IN  IF m2 THEN Replace(t1, <<"obshchestvennoy">>, <<"publichnoy">>) ELSE t1
     : m1 \in maybe(25), m2 \in maybe(18)}

\* build_message(c, m, arts): its mode, its sections as joined at line 475
\* and the text it returns
build_message(c, m, arts) ==
    \E md \in choose_mode :
      \E body \in BodySections(md, c, m) :
        \E secs \in WithEvidence(body, arts) :
          \E t \in Mutations(Strip(Join(<<NL, NL>>, secs))) :
            /\ mode' = md
            /\ sections' = secs
            /\ text' = t

-----------------------------------------------------------------------------
(* cmd_forecast *)

RECURSIVE InsertDesc(_, _)
\* a put into the list s, sorted by seendate descending, after its equals
InsertDesc(a, s) ==
    IF s = <<>> THEN <<a>>
    ELSE IF a.seendate > Head(s).seendate THEN <<a>> \o s
    ELSE <<Head(s)>> \o InsertDesc(a, Tail(s))

RECURSIVE SortDesc(_)
\* sorted(articles, key=lambda a: a.seendate, reverse=True): stable
SortDesc(s) ==
    IF s = <<>> THEN <<>>
    ELSE InsertDesc(s[Len(s)], SortDesc(SubSeq(s, 1, Len(s) - 1)))

\* the unhashable value of a "sourceCountry" that is a JSON array
Unhashable == "<list>"

\* the loop of gdelt_fetch_articles, lines 150-158: items with a title and a url
ArticlesOf(items) ==
    SelectSeq(items, LAMBDA it : it.title # <<>> /\ it.url # <<>>)

\* set(countries) raises TypeError, line 178
SetRaises(arts) ==
    \E i \in DOMAIN arts : arts[i].source_country = Unhashable

Usage == <<"w", SP, "/forecast", SP, "w">>

NoMetrics == [n |-> 0, precipitation |-> 0, wind |-> 0, pressure |-> 0,
              temperature |-> 0, confidence |-> 0]

NoCalls == [fetch |-> 0, compute |-> 0, build |-> 0]

\* split on " " instead of on whitespace runs: text.split(" ", 1)
split1OnSpace(s) ==
    IF \E i \in DOMAIN s : s[i] = SP
    THEN LET i == CHOOSE k \in DOMAIN s : s[k] = SP /\ \A j \in 1..(k - 1) : s[j] # SP
         IN  <<Take(s, i - 1), Drop(s, i)>>
    ELSE <<s>>

\* text.split(maxsplit=1), line 501
parts_of(t) == split1(t)

\* cmd_forecast up to its first await, lines 500-510: the usage reply, or
\* the search request is sent
Receive(m) ==
    /\ pc = "idle"
    /\ msg' = m
    /\ LET t == IF m.is_none THEN <<>> ELSE m.text
           parts == parts_of(t)
       IN  IF Len(parts) < 2
           THEN /\ replies' = Append(replies, [kind |-> "usage", text |-> Usage])
                /\ pc' = "done"
                /\ UNCHANGED <<city, calls>>
           ELSE /\ city' = human_city(parts[2])
                /\ calls' = [calls EXCEPT !.fetch = @ + 1]
                /\ pc' = "fetch"
                /\ UNCHANGED replies
    /\ UNCHANGED <<articles_24h, metrics, top_articles, mode, sections, text,
                   raised, outcome, arg, ret>>

\* lines 515-518 with articles_24h = arts: the report is built and sent
Report(arts, how) ==
    /\ ~SetRaises(arts)
    /\ outcome' = how
    /\ articles_24h' = arts
    /\ metrics' = compute_metrics(arts)
    /\ top_articles' = SortDesc(arts)
    /\ build_message(city, compute_metrics(arts), SortDesc(arts))
    /\ replies' = Append(replies, [kind |-> "report", text |-> text'])
    /\ calls' = [calls EXCEPT !.compute = @ + 1, !.build = @ + 1]
    /\ pc' = "done"
    /\ UNCHANGED <<msg, city, raised, arg, ret>>

\* status 200 and a JSON object whose "articles" are well formed items
FetchOk(items) ==
    /\ pc = "fetch"
    /\ Report(ArticlesOf(items), "ok")

\* status 200, well formed items, one "sourceCountry" a JSON array:
\* compute_metrics raises at line 178, outside the try of lines 509-513
FetchOkUnhashable(items) ==
    /\ pc = "fetch"
    /\ SetRaises(ArticlesOf(items))
    /\ outcome' = "ok"
    /\ articles_24h' = ArticlesOf(items)
    /\ calls' = [calls EXCEPT !.compute = @ + 1]
    /\ raised' = TRUE
    /\ pc' = "raised"
    /\ UNCHANGED <<msg, city, metrics, top_articles, mode, sections, text,
                   replies, arg, ret>>

\* a status other than 200: gdelt_fetch_articles returns [], lines 144-147
FetchHttpError ==
    /\ pc = "fetch"
    /\ Report(<<>>, "http_error")

\* a body that is no JSON: _gdelt_get_json_tolerant returns {}, lines 109-122
FetchNonJson ==
    /\ pc = "fetch"
    /\ Report(<<>>, "non_json")

\* JSON of another shape (no object, items that are no objects, a seendate
\* that is no string): lines 151-155 raise, caught at line 511
FetchMalformed ==
    /\ pc = "fetch"
    /\ Report(<<>>, "malformed")

\* session.get or resp.text() raises (a timeout, a connection error),
\* caught at line 511
FetchRaises ==
    /\ pc = "fetch"
    /\ Report(<<>>, "exception")

-----------------------------------------------------------------------------
(* Inputs *)

Countries == <<"US", "GB", "DE", "FR", "IL", "EE", "ES", "IT", "SE", "FI">>

\* the i-th item of a payload of k items, newest first as "sort": "DateDesc"
\* asks; c is its sourceCountry
Item(i, k, c) ==
    Article(<<"t", ToString(i)>>, <<"u", ToString(i)>>, k - i, c)

\* k items from k different countries
DistinctItems(k) == [i \in 1..k |-> Item(i, k, Countries[i])]

\* an item whose title holds "za sutki" and whose url holds "obshchestvennoy"
PatternItem ==
    Article(<<"c", SP, "za", SP, "sutki">>, <<"u", "obshchestvennoy">>, 0, "US")

\* an item without a title
UntitledItem == Article(<<>>, <<"u", "0">>, 0, "US")

\* an item whose sourceCountry is a JSON array
ArrayCountryItem == Article(<<"t", "0">>, <<"u", "0">>, 0, Unhashable)

\* items oldest first, two of them seen at the same second, one untitled
UnsortedItems ==
    <<Article(<<"t", "1">>, <<"u", "1">>, 1, None), UntitledItem,
      Article(<<"t", "2">>, <<"u", "2">>, 2, "US"),
      Article(<<"t", "3">>, <<"u", "3">>, 2, "")>>

\* the payloads of a successful search
Payloads ==
    {<<>>, UnsortedItems, <<ArrayCountryItem>>,
     Append(DistinctItems(MaxArticles - 1), ArrayCountryItem)}

Text(t) == [is_none |-> FALSE, text |-> t]

\* the updates the "forecast" command filter lets through
Messages ==
    {[is_none |-> TRUE, text |-> <<>>], Text(<<"/forecast">>)}
    \cup {Text(<<"/forecast">> \o Rep(ws, n)) : ws \in Whitespace, n \in 1..MaxPad}
    \cup {Text(<<"/forecast", SP, "c">>),
          Text(<<"/forecast", SP, SP, "c", TAB, SP, "c", SP>>)}

-----------------------------------------------------------------------------
(* The handler *)

Blank ==
    /\ msg = Text(<<>>)
    /\ city = <<>>
    /\ articles_24h = <<>>
    /\ metrics = NoMetrics
    /\ top_articles = <<>>
    /\ mode = "none"
    /\ sections = <<>>
    /\ text = <<>>
    /\ replies = <<>>
    /\ raised = FALSE
    /\ calls = NoCalls
    /\ outcome = "none"

NoCall == [fn |-> "none"]

Init ==
    /\ pc = "idle"
    /\ Blank
    /\ arg = NoCall
    /\ ret = NoCall

Next ==
    \/ \E m \in Messages : Receive(m)
    \/ \E items \in Payloads : FetchOk(items)
    \/ \E items \in Payloads : FetchOkUnhashable(items)
    \/ FetchHttpError
    \/ FetchNonJson
    \/ FetchMalformed
    \/ FetchRaises

Spec == Init /\ [][Next]_vars

-----------------------------------------------------------------------------
(* build_message on its own *)

\* metric sets of every label
LabelMetrics ==
    {[n |-> 3, precipitation |-> x, wind |-> x, pressure |-> x,
      temperature |-> x, confidence |-> x] :
        x \in {0, Dec(50, 100), Dec(80, 100), Scale}}

\* (city, metrics, top_articles) as cmd_forecast passes them, for 0 to
\* MaxArticles articles; a city and an article that hold replace patterns;
\* metric sets of every label
BuildInputs ==
    {<<(<<"c">>), compute_metrics(DistinctItems(k)), SortDesc(DistinctItems(k))>> :
        k \in 0..MaxArticles}
    \cup {<<c, compute_metrics(<<PatternItem>>), <<PatternItem>>>> :
            c \in {<<"c", SP, "za", SP, "sutki">>, <<"obshchestvennoy">>}}
    \cup {<<(<<"c">>), m, <<>>>> : m \in LabelMetrics}

InitBuild ==
    /\ pc = "build"
    /\ \E in \in BuildInputs :
          /\ city = in[1]
          /\ metrics = in[2]
          /\ top_articles = in[3]
          /\ articles_24h = in[3]
    /\ msg = Text(<<>>)
    /\ mode = "none"
    /\ sections = <<>>
    /\ text = <<>>
    /\ replies = <<>>
    /\ raised = FALSE
    /\ calls = NoCalls
    /\ outcome = "none"
    /\ arg = NoCall
    /\ ret = NoCall

\* one call of build_message
Build ==
    /\ pc = "build"
    /\ build_message(city, metrics, top_articles)
    /\ pc' = "done"
    /\ UNCHANGED <<msg, city, articles_24h, metrics, top_articles, replies,
                   raised, calls, outcome, arg, ret>>

NextBuild == Build

SpecBuild == InitBuild /\ [][NextBuild]_vars

-----------------------------------------------------------------------------
(* The pure functions on their own *)

\* the hundredths of [0,1] and their neighbours
Grid == {x \in {Dec(k, 100) + d : k \in 0..100, d \in {-1, 0, 1}} : 0 <= x /\ x <= Scale}

Thresholds == {Dec(25, 100), Dec(30, 100), Dec(35, 100), Dec(60, 100),
               Dec(65, 100), Dec(75, 100)}

Lvl3Inputs ==
    {[fn |-> "lvl3", x |-> x, a |-> a, b |-> b] :
        x \in Grid, a \in Thresholds, b \in Thresholds} 

Fields == {"precipitation", "wind", "pressure", "temperature", "confidence"}

WordsInputs ==
    {[fn |-> "words", m |-> [base EXCEPT ![f] = x]] :
        base \in LabelMetrics, f \in Fields, x \in Grid}

\* article lists of up to MaxMixLen articles with any source countries, and
\* of up to MaxArticles articles from different countries
MetricsInputs ==
    {[fn |-> "compute_metrics", arts |-> a] :
        a \in UNION {[1..k -> {Article(<<"t">>, <<"u">>, 0, c) : c \in {None, "", "US", "GB"}}] :
                        k \in 0..MaxMixLen}
              \cup {DistinctItems(k) : k \in 0..MaxArticles}}

\* place strings: spaces, a word, a whitespace run, a word, tabs
CityInputs ==
    {[fn |-> "human_city",
      s |-> Rep(SP, l) \o Rep("c", n1) \o Rep(ws, g) \o Rep("c", n2) \o Rep(TAB, t)] :
        l \in 0..MaxPad, n1 \in {1, MaxCityLen - 1, MaxCityLen, MaxCityLen + 1},
        ws \in Whitespace, g \in 0..MaxPad, n2 \in 0..1, t \in 0..1}

InitPure(inputs) ==
    /\ pc = "call"
    /\ Blank
    /\ arg \in inputs
    /\ ret = NoCall

Return(r) ==
    /\ ret' = r
    /\ pc' = "done"
    /\ UNCHANGED <<msg, city, articles_24h, metrics, top_articles, mode,
                   sections, text, replies, raised, calls, outcome, arg>>

ApplyLvl3 ==
    /\ pc = "call" /\ arg.fn = "lvl3"
    /\ Return([fn |-> "lvl3", label |-> lvl3(arg.x, arg.a, arg.b, "low", "mid", "high")])

ApplyWords ==
    /\ pc = "call" /\ arg.fn = "words"
    /\ Return([fn |-> "words", w |-> words(arg.m)])

ApplyComputeMetrics ==
    /\ pc = "call" /\ arg.fn = "compute_metrics"
    /\ Return([fn |-> "compute_metrics", m |-> compute_metrics(arg.arts)])

ApplyHumanCity ==
    /\ pc = "call" /\ arg.fn = "human_city"
    /\ Return([fn |-> "human_city", s |-> human_city(arg.s)])

InitLvl == InitPure({i \in Lvl3Inputs : i.a < i.b} \cup WordsInputs)
NextLvl == ApplyLvl3 \/ ApplyWords
SpecLvl == InitLvl /\ [][NextLvl]_vars

InitMetrics == InitPure(MetricsInputs)
NextMetrics == ApplyComputeMetrics
SpecMetrics == InitMetrics /\ [][NextMetrics]_vars

InitCity == InitPure(CityInputs)
NextCity == ApplyHumanCity
SpecCity == InitCity /\ [][NextCity]_vars

-----------------------------------------------------------------------------
(* Reading a report *)

\* the index of the first x in s from index i on, Len(s) + 1 if there is none
IndexFrom(s, x, i) ==
    IF \E k \in i..Len(s) : s[k] = x
    THEN CHOOSE k \in i..Len(s) : s[k] = x /\ \A j \in i..(k - 1) : s[j] # x
    ELSE Len(s) + 1

\* how often x occurs in s
Count(s, x) == Cardinality({i \in DOMAIN s : s[i] = x})

RECURSIVE SplitOn(_, _)
\* s.split(x)
SplitOn(s, x) ==
    LET i == IndexFrom(s, x, 1)
    IN  IF i > Len(s) THEN <<s>>
        ELSE <<Take(s, i - 1)>> \o SplitOn(Drop(s, i), x)

\* the bold values of s, in order: what stands between "**" and "**"
BoldOf(s) ==
    LET at == SelectSeq([i \in DOMAIN s |-> i],
                        LAMBDA i : /\ 1 < i /\ i < Len(s)
                                   /\ s[i - 1] = "**" /\ s[i + 1] = "**"
                                   /\ s[i] # "**")
    IN  [j \in DOMAIN at |-> s[at[j]]]

ConfLabels == {"nizkaya", "srednyaya", "vysokaya"}

Labels == ConfLabels \cup {"umerennaya", "slabyy", "zametnyy", "poryvistyy",
                           "spokoynoe", "peremennoe", "nestabilnoe",
                           "prokhladnaya", "tyoplaya", "goryachaya", "peregretaya"}

\* the qualitative labels a report shows, in order
LabelsShown(s) == SelectSeq(BoldOf(s), LAMBDA x : x \in Labels)

\* the report has a confidence line
HasConfLine(s) == Count(s, "[magnifier]") > 0

\* the label of the confidence line
ConfLabelShown(s) == s[IndexFrom(s, "**", IndexFrom(s, "[magnifier]", 1)) + 1]

\* the report has an evidence block
HasEvidence(s) == Count(s, "[newspaper]") > 0

\* the evidence block of a report or of a section
EvidenceOf(s) == Drop(s, IndexFrom(s, "[newspaper]", 1) - 1)

\* the entries of an evidence block, each <<title, locator>>: after the
\* header line, a line "[bullet] title" and a line "  locator" per entry
EntriesOf(block) ==
    LET lines == Tail(SplitOn(block, NL))
    IN  [i \in 1..(Len(lines) \div 2) |->
            <<Drop(lines[2 * i - 1], 2), Drop(lines[2 * i], 2)>>]

\* the city of the title line: what follows ": " up to the end of the line
CityShown(s) ==
    LET i == IndexFrom(s, ":", 1)
    IN  SubSeq(s, i + 2, IndexFrom(s, NL, i) - 1)

\* what the first k articles are to be shown as
EntriesFor(arts, k) == [i \in 1..Min(k, Len(arts)) |-> <<arts[i].title, arts[i].url>>]

\* the labels the sections of a report are to show: a metric block its
\* temperature, wind and pressure, a confidence line its confidence
RECURSIVE LabelsFor(_, _)
LabelsFor(secs, w) ==
    IF secs = <<>> THEN <<>>
    ELSE (CASE Head(Head(secs)) = "[thermometer]" -> <<w.temp, w.wind, w.press>>
            [] Head(Head(secs)) = "[magnifier]" -> <<w.conf>>
            [] OTHER -> <<>>) \o LabelsFor(Tail(secs), w)

\* the half-open convention: low below a, mid in [a, b), high from b on
HalfOpen(x, a, b, low, mid, high) ==
    CASE x < a -> low
      [] a <= x /\ x < b -> mid
      [] x >= b -> high

Built == pc = "done" /\ mode # "none"

\* the last section of the report as joined is an evidence block
EvidenceIncluded == Built /\ Head(sections[Len(sections)]) = "[newspaper]"

-----------------------------------------------------------------------------
(* The claims *)

\* C1, as stated: lvl3 follows the half-open convention for all x and
\* a < b, and words() labels every metric, temperature included, this way.
C1_AllMetricsHalfOpen ==
    /\ (pc = "done" /\ arg.fn = "lvl3") =>
          ret.label = HalfOpen(arg.x, arg.a, arg.b, "low", "mid", "high")
    /\ (pc = "done" /\ arg.fn = "words") =>
          /\ ret.w.precip = HalfOpen(arg.m.precipitation, Dec(25, 100), Dec(65, 100), "nizkaya", "umerennaya", "vysokaya")
          /\ ret.w.wind = HalfOpen(arg.m.wind, Dec(25, 100), Dec(65, 100), "slabyy", "zametnyy", "poryvistyy")
          /\ ret.w.press = HalfOpen(arg.m.pressure, Dec(25, 100), Dec(65, 100), "spokoynoe", "peremennoe", "nestabilnoe")
          /\ ret.w.conf = HalfOpen(arg.m.confidence, Dec(35, 100), Dec(75, 100), "nizkaya", "srednyaya", "vysokaya")
          /\ ret.w.temp = HalfOpen(arg.m.temperature, Dec(30, 100), Dec(75, 100), "prokhladnaya", "tyoplaya", "goryachaya")

\* C1, amended: lvl3 follows the half-open convention for all x and a < b;
\* words() labels precipitation, wind, pressure and confidence this way, and
\* temperature too unless it is above 0.88, which is labelled "peregretaya".
C1_HalfOpenButOverheated ==
    /\ (pc = "done" /\ arg.fn = "lvl3") =>
          ret.label = HalfOpen(arg.x, arg.a, arg.b, "low", "mid", "high")
    /\ (pc = "done" /\ arg.fn = "words") =>
          /\ ret.w.precip = HalfOpen(arg.m.precipitation, Dec(25, 100), Dec(65, 100), "nizkaya", "umerennaya", "vysokaya")
          /\ ret.w.wind = HalfOpen(arg.m.wind, Dec(25, 100), Dec(65, 100), "slabyy", "zametnyy", "poryvistyy")
          /\ ret.w.press = HalfOpen(arg.m.pressure, Dec(25, 100), Dec(65, 100), "spokoynoe", "peremennoe", "nestabilnoe")
          /\ ret.w.conf = HalfOpen(arg.m.confidence, Dec(35, 100), Dec(75, 100), "nizkaya", "srednyaya", "vysokaya")
          /\ arg.m.temperature <= Dec(88, 100) =>
                ret.w.temp = HalfOpen(arg.m.temperature, Dec(30, 100), Dec(75, 100), "prokhladnaya", "tyoplaya", "goryachaya")
          /\ arg.m.temperature > Dec(88, 100) => ret.w.temp = "peregretaya"

\* C1, witness: words() has labelled a temperature above 0.88, and a wind
\* of exactly 0.25
C1_Witness ==
    /\ pc = "done" /\ arg.fn = "words"
    /\ arg.m.temperature > Dec(88, 100) /\ ret.w.temp = "peregretaya"
    /\ arg.m.wind = Dec(25, 100) /\ ret.w.wind = "zametnyy"

ZeroObservations == Built /\ top_articles = <<>> /\ metrics = compute_metrics(<<>>)

C4_AllScoresZero ==
    (pc = "done" /\ arg.fn = "compute_metrics" /\ arg.arts = <<>>) =>
        /\ ret.m.precipitation = 0 /\ ret.m.wind = 0 /\ ret.m.pressure = 0
        /\ ret.m.confidence = 0 /\ ret.m.temperature = 0

\* C4, amended: for zero observations precipitation, pressure and confidence
\* are 0; wind is sigmoid(-2.8), about 0.057, and temperature is 0.30 times
\* wind, about 0.017.
C4_ZeroButWind ==
    (pc = "done" /\ arg.fn = "compute_metrics" /\ arg.arts = <<>>) =>
        /\ ret.m.precipitation = 0 /\ ret.m.pressure = 0 /\ ret.m.confidence = 0
        /\ Dec(57, 1000) < ret.m.wind /\ ret.m.wind < Dec(58, 1000)
        /\ Dec(17, 1000) < ret.m.temperature /\ ret.m.temperature < Dec(18, 1000)
        /\ ret.m.temperature = (30 * ret.m.wind) \div 100

\* C4, witness: compute_metrics has returned for zero observations
C4_Witness ==
    pc = "done" /\ arg.fn = "compute_metrics" /\ arg.arts = <<>> /\ ret.m.n = 0

\* C6: the mutation pass changes no label: the labels the returned text
\* shows are, slot by slot, the labels words() computed.
C6_LabelsKept ==
    Built => LabelsShown(text) = LabelsFor(sections, words(metrics))

\* C6, witness: a mutation has changed the text of a report that shows labels
C6_Witness ==
    /\ Built
    /\ text # Strip(Join(<<NL, NL>>, sections))
    /\ Len(LabelsShown(text)) = 4

\* C7: whatever the outcome of the search request, the handler sends exactly
\* one reply, a report, a failure is replaced by an empty article list, and
\* no error leaves the handler.
C7_AlwaysOneReport ==
    (pc \in {"done", "raised"} /\ calls.fetch > 0) =>
        /\ ~raised
        /\ Len(replies) = 1 /\ replies[1].kind = "report"
        /\ outcome # "ok" => articles_24h = <<>>

\* the place argument of the message is missing, empty or only whitespace
MissingPlace(m) ==
    m.is_none \/ \A i \in DOMAIN m.text : i > 1 => m.text[i] \in Whitespace

\* C8: a /forecast whose place is missing, empty or whitespace gets the usage
\* message and no search, compute_metrics or build_message call; and whenever
\* the pipeline runs, its place string is non-empty.
C8_EmptyPlaceRejected ==
    /\ (pc # "idle" /\ MissingPlace(msg)) =>
          /\ pc = "done"
          /\ replies = <<[kind |-> "usage", text |-> Usage]>>
          /\ calls = NoCalls
    /\ calls # NoCalls => city # <<>> /\ ~MissingPlace(msg)

\* C8, witness: a whitespace-only place was answered with the usage message
C8_Witness ==
    /\ pc = "done" /\ msg = Text(<<"/forecast", SP>>)
    /\ replies = <<[kind |-> "usage", text |-> Usage]>>

\* C9: the place human_city returns has at most 80 characters, every
\* whitespace run reduced to one space, and no leading or trailing whitespace.
C9_Sanitized ==
    (pc = "done" /\ arg.fn = "human_city") =>
        /\ Len(ret.s) <= 80
        /\ \A i \in DOMAIN ret.s :
              ret.s[i] \in Whitespace =>
                 ret.s[i] = SP /\ (i > 1 => ret.s[i - 1] \notin Whitespace)
        /\ ret.s # <<>> => ret.s[1] \notin Whitespace /\ ret.s[Len(ret.s)] \notin Whitespace

\* C10: the city of the title and the title and locator of every included
\* evidence entry stand in the returned report as they were supplied.
C10_SuppliedContentKept ==
    Built =>
        /\ CityShown(text) = city
        /\ HasEvidence(text) => EntriesOf(EvidenceOf(text)) = EntriesFor(top_articles, 6)

====
